---- MODULE Spec2Model ----
(***************************************************************************)
(* Model of finetune/datasets/t2v_dataset.py: BaseT2VDataset and its two   *)
(* variants T2VDatasetWithResize and T2VDatasetWithBuckets.                *)
(*                                                                         *)
(* The state is the dataset object (prompts, videos, encode_video_fn,      *)
(* video_resolution_buckets), the filesystem it touches (video files,      *)
(* latent directories, cached latent files) and, per data-loading worker,  *)
(* the position inside __getitem__ with its local variables.               *)
(*                                                                         *)
(* Python indices are 0-based; sequences here are 1-based, PyItem does the *)
(* conversion.  Pixel values after video_transform are kept as exact       *)
(* numerators over 255 (x/255*2-1 = (2x-255)/255).                         *)
(***************************************************************************)
EXTENDS Integers, Sequences, FiniteSets, TLC

\* ------------------------------------------------------------------ bounds
MaxVideos == 2      \* longest videos / prompts list drawn at construction
MaxCalls == 2       \* __getitem__ calls made in one run
MaxEnv == 1         \* external changes (video overwritten, encode fn replaced)
MaxBuckets == 2     \* longest raw bucket list drawn in InitBuckets

\* ------------------------------------------------------------ value spaces
\* A pathlib.Path, as far as the code looks at it: parent, stem, suffix.
MkPath(parent, stem, suffix) == [parent |-> parent, stem |-> stem, suffix |-> suffix]

\* Video paths a videos file may list.  Two of them differ in the suffix only.
VideoPaths ==
    { MkPath(<<"root", "a">>, "x", ".mp4"),
      MkPath(<<"root", "a">>, "x", ".avi"),
      MkPath(<<"root", "b">>, "y", ".mp4") }

\* load_prompts: the i-th line of the captions file.
PromptList(n) == [i \in 1..n |-> <<"prompt", i - 1>>]

Variants == {"base", "resize", "bucket"}

\* Callables that may be bound to self.encode_video_fn.
EncodeFns == {"enc_a", "enc_b"}

\* [C, F, H, W] shapes an encoder may give its output.
LatentShapes == { <<16, 13, 60, 90>>, <<16, 2, 30, 45>> }

\* Arguments the bucket variant may be constructed with.
RawBucketChoices == { <<49, 480, 720>>, <<1, 5, 7>>, <<16, 256, 250>> }
RatioChoices == { <<4, 8, 8>>, <<1, 1, 1>>, <<3, 7, 16>> }

\* Arguments of the resize variant: max_num_frames, height, width.
ResizeArgs == [max_num_frames |-> 49, height |-> 480, width |-> 720]

\* Lists a BucketSampler may hand to __getitem__ in place of an index.
ListArgs == { <<>>, <<"sample0", "sample1">> }

Range(s) == { s[i] : i \in 1..Len(s) }

SeqsUpTo(S, n) == UNION { [1..k -> S] : k \in 0..n }

\* load_videos: a videos file of at most n lines, no path listed twice.
VideoLists(n) ==
    { vs \in SeqsUpTo(VideoPaths, n) :
        \A i, j \in 1..Len(vs) : vs[i] = vs[j] => i = j }

\* ------------------------------------------------------------ construction
NoPath == MkPath(<<>>, "", "")

NoError == [type |-> "none", cites |-> "none", path |-> NoPath,
            nprompts |-> -1, nvideos |-> -1]

\* next(path for path in self.videos if not path.is_file())
FirstMissing(vs, existing) ==
    vs[CHOOSE i \in 1..Len(vs) :
          /\ vs[i] \notin existing
          /\ \A j \in 1..(i - 1) : vs[j] \in existing]

\* The checks of BaseT2VDataset.__init__, in the order the code makes them:
\* the error raised, or NoError.
InitError_lengthFirst(vs, ps, existing) ==
    IF Len(vs) # Len(ps)
    THEN [NoError EXCEPT !.type = "ValueError", !.cites = "lengths",
                         !.nprompts = Len(ps), !.nvideos = Len(vs)]
    ELSE IF \E i \in 1..Len(vs) : vs[i] \notin existing
    THEN [NoError EXCEPT !.type = "ValueError", !.cites = "missing_file",
                         !.path = FirstMissing(vs, existing)]
    ELSE NoError

InitError_lastMissing(vs, ps, existing) ==
    IF \E i \in 1..Len(vs) : vs[i] \notin existing
    THEN [NoError EXCEPT !.type = "ValueError", !.cites = "missing_file",
                         !.path = vs[CHOOSE i \in 1..Len(vs) :
                                       /\ vs[i] \notin existing
                                       /\ \A j \in (i + 1)..Len(vs) : vs[j] \in existing]]
    ELSE IF Len(vs) # Len(ps)
    THEN [NoError EXCEPT !.type = "ValueError", !.cites = "lengths",
                         !.nprompts = Len(ps), !.nvideos = Len(vs)]
    ELSE NoError

InitError_noLengthCheck(vs, ps, existing) ==
    IF \E i \in 1..Len(vs) : vs[i] \notin existing
    THEN [NoError EXCEPT !.type = "ValueError", !.cites = "missing_file",
                         !.path = FirstMissing(vs, existing)]
    ELSE NoError

InitError(vs, ps, existing) ==
    IF \E i \in 1..Len(vs) : vs[i] \notin existing
    THEN [NoError EXCEPT !.type = "ValueError", !.cites = "missing_file",
                         !.path = FirstMissing(vs, existing)]
    ELSE IF Len(vs) # Len(ps)
    THEN [NoError EXCEPT !.type = "ValueError", !.cites = "lengths",
                         !.nprompts = Len(ps), !.nvideos = Len(vs)]
    ELSE NoError

\* int(a / b) for ints a and b > 0: true division, then truncation toward zero.
IntOfQuotient_ceil(a, b) == (a + b - 1) \div b

IntOfQuotient(a, b) ==
    IF a >= 0 THEN a \div b ELSE -((-a) \div b)

\* self.video_resolution_buckets of T2VDatasetWithBuckets.__init__
WorkingBuckets_reversed(raw, ratios) ==
    [i \in 1..Len(raw) |->
        << IntOfQuotient(raw[Len(raw) + 1 - i][1], ratios[1]),
           IntOfQuotient(raw[Len(raw) + 1 - i][2], ratios[2]),
           IntOfQuotient(raw[Len(raw) + 1 - i][3], ratios[3]) >>]

WorkingBuckets(raw, ratios) ==
    [i \in 1..Len(raw) |->
        << IntOfQuotient(raw[i][1], ratios[1]),
           IntOfQuotient(raw[i][2], ratios[2]),
           IntOfQuotient(raw[i][3], ratios[3]) >>]

\* ------------------------------------------------------------- cache paths
\* latent_dir = video.parent / "latent"
LatentDir(video) == Append(video.parent, "latent")

\* encoded_video_path = latent_dir / (video.stem + ".pt")
EncodedVideoPath_keepSuffix(video) ==
    MkPath(LatentDir(video), video.stem, video.suffix)

EncodedVideoPath(video) == MkPath(LatentDir(video), video.stem, ".pt")

CachePaths == { EncodedVideoPath(v) : v \in VideoPaths }

\* encoded_video_path.exists()
PathExists_never(files, path) == FALSE

PathExists(files, path) == path \in DOMAIN files

\* -------------------------------------------------------------- list access
\* seq[i] of a Python list: 0-based, negative indices count from the end.
PyIndexValid(seq, i) == -Len(seq) <= i /\ i < Len(seq)

PyItem(seq, i) == IF i >= 0 THEN seq[i + 1] ELSE seq[Len(seq) + i + 1]

\* The argument of __getitem__: an int, or a list handed over by a sampler.
IntArg(i) == [isList |-> FALSE, list |-> <<>>, index |-> i]
ListArg(l) == [isList |-> TRUE, list |-> l, index |-> 0]
NoArg == [isList |-> FALSE, list |-> <<>>, index |-> -99]

\* isinstance(index, list)
IsListIndex_never(a) == FALSE

IsListIndex(a) == a.isList

\* ------------------------------------------------------------------ tensors
NoSrc == [path |-> NoPath, ver |-> -1]

NoFrames == [src |-> NoSrc, px |-> <<>>, layout |-> "none", device |-> "none"]

NoLatent == [src |-> NoSrc, fn |-> "none", shape |-> <<>>]

\* The device handed to the constructor.
Device == "cuda"

\* Frames a decoder gives for a video file at a given content version: one
\* 8-bit value per frame stands for the frame's pixels.
DecodedPixels(ver) == IF ver = 0 THEN <<0, 255>> ELSE <<255, 128, 0>>

\* transforms.Lambda(lambda x: x / 255.0 * 2.0 - 1.0), as a numerator over 255.
FrameTransform(x) == 2 * x - 255

\* torch.stack([self.__frame_transform(f) for f in frames], dim=0)
VideoTransform(frames) ==
    [frames EXCEPT !.px = [i \in 1..Len(frames.px) |-> FrameTransform(frames.px[i])]]

\* The same two definitions of T2VDatasetWithBuckets.
BucketsFrameTransform_unsigned(x) == x

BucketsFrameTransform(x) == 2 * x - 255

BucketsVideoTransform(frames) ==
    [frames EXCEPT !.px = [i \in 1..Len(frames.px) |->
                             BucketsFrameTransform(frames.px[i])]]

\* Whether the class overrides the method ("preprocess", "video_transform")
\* that BaseT2VDataset leaves raising NotImplementedError.
Overrides_resizeOnly(var, method) == var = "resize"

Overrides(var, method) == var \in {"resize", "bucket"}

\* self.video_transform(frames) of a class that overrides it.
VideoTransformOf(var, frames) ==
    IF var = "bucket" THEN BucketsVideoTransform(frames) ELSE VideoTransform(frames)

\* latent_dir.mkdir(parents=True, exist_ok=True)
Mkdir_skipped(ds, d) == ds

Mkdir(ds, d) == ds \cup {d}

\* frames.unsqueeze(0).permute(0, 2, 1, 3, 4).contiguous()
ToBatch(frames) == [frames EXCEPT !.layout = "BCFHW"]

\* torch.save writes a header (the shape) and the storage; torch.load reads
\* both back.  A file cut short holds the header only.
Serialize(latent) ==
    << [entry |-> "data.pkl", shape |-> latent.shape],
       [entry |-> "data/0", src |-> latent.src, fn |-> latent.fn] >>

BlobComplete(blob) == Len(blob) = 2

Deserialize(blob) ==
    [src |-> blob[2].src, fn |-> blob[2].fn, shape |-> blob[1].shape]

\* torch.save(encoded_video, encoded_video_path): the file is replaced as a whole.
WriteFile_truncated(files, path, blob) ==
    [p \in (DOMAIN files) \cup {path} |->
        IF p = path THEN SubSeq(blob, 1, 1) ELSE files[p]]

WriteFile_freshDir(files, path, blob) == [p \in {path} |-> blob]

WriteFile(files, path, blob) ==
    [p \in (DOMAIN files) \cup {path} |-> IF p = path THEN blob ELSE files[p]]

\* encoded_video[0]: the first element along the batch axis.
FirstOfBatch(batch) == batch[1]

\* The record __getitem__ returns.
MakeItem_framesFromBatchAxis(prompt, encoded) ==
    [prompt |-> prompt, encoded_video |-> encoded,
     video_metadata |-> [num_frames |-> encoded.shape[1],
                         height |-> encoded.shape[2],
                         width |-> encoded.shape[3]]]

MakeItem(prompt, encoded) ==
    [prompt |-> prompt, encoded_video |-> encoded,
     video_metadata |-> [num_frames |-> encoded.shape[2],
                         height |-> encoded.shape[3],
                         width |-> encoded.shape[4]]]

NoItem == [prompt |-> <<>>, encoded_video |-> NoLatent,
           video_metadata |-> [num_frames |-> -1, height |-> -1, width |-> -1]]

\* -------------------------------------------------------------------- state
VARIABLES
    variant,      \* which class is instantiated
    prompts,      \* self.prompts, as load_prompts returned it
    videos,       \* self.videos, as load_videos returned it
    rawBuckets,   \* video_resolution_buckets argument (bucket variant)
    ratios,       \* the three vae_*_compression_ratio arguments
    buckets,      \* self.video_resolution_buckets
    ctor,         \* progress and outcome of __init__
    encodeFn,     \* self.encode_video_fn
    fsVideo,      \* video files on disk: path -> content version
    dirs,         \* directories created by mkdir
    cache,        \* latent files on disk: path -> file content
    workers,      \* the workers calling into the dataset
    pc,           \* per worker: position inside __getitem__
    loc,          \* per worker: arguments and locals of the running call
    result,       \* per worker: outcome of the last finished call
    callsLeft,    \* calls into the dataset still to be made
    envLeft,      \* external changes still to be made
    begun,        \* cache paths an integer-index retrieval was begun for
    encInvoked,   \* cache paths encode_video_fn was invoked for
    encReturned,  \* cache paths encode_video_fn returned a latent for
    encOutputs,   \* the latents encode_video_fn has returned
    returned      \* cache paths an integer-index retrieval returned a record for

vars == << variant, prompts, videos, rawBuckets, ratios, buckets, ctor, encodeFn,
           fsVideo, dirs, cache, workers, pc, loc, result, callsLeft, envLeft,
           begun, encInvoked, encReturned, encOutputs, returned >>

dsVars == << variant, prompts, videos, rawBuckets, ratios, buckets, ctor >>
ghostVars == << begun, encInvoked, encReturned, encOutputs, returned >>

NoLoc == [arg |-> NoArg, prompt |-> <<>>, video |-> NoPath, first |-> FALSE,
          hit |-> FALSE, frames |-> NoFrames, passed |-> <<>>, batch |-> <<>>,
          encoded |-> NoLatent, log |-> <<>>]

NoResult == [status |-> "none", arg |-> NoArg, first |-> FALSE, hit |-> FALSE,
             item |-> NoItem,
             list |-> <<>>, len |-> -1, error |-> "none", log |-> <<>>,
             batch |-> <<>>, passed |-> <<>>]

InitState(W, vs, ps, missing, var, raw, rat, calls, env) ==
    /\ variant = var
    /\ prompts = ps
    /\ videos = vs
    /\ rawBuckets = raw
    /\ ratios = rat
    /\ buckets = <<>>
    /\ ctor = [state |-> "new", error |-> NoError]
    /\ encodeFn = "enc_a"
    /\ fsVideo = [p \in VideoPaths \ missing |-> 0]
    /\ dirs = {}
    /\ cache = << >>
    /\ workers = W
    /\ pc = [w \in W |-> "idle"]
    /\ loc = [w \in W |-> NoLoc]
    /\ result = [w \in W |-> NoResult]
    /\ callsLeft = calls
    /\ envLeft = env
    /\ begun = {}
    /\ encInvoked = {}
    /\ encReturned = {}
    /\ encOutputs = {}
    /\ returned = {}

DefaultRawBuckets == << <<49, 480, 720>> >>
DefaultRatios == <<4, 8, 8>>

\* One worker; any videos file, captions file and set of missing video files.
Init ==
    \E vs \in VideoLists(MaxVideos), n \in 0..MaxVideos, var \in Variants :
        \E missing \in SUBSET Range(vs) :
            InitState({1}, vs, PromptList(n), missing, var,
                      DefaultRawBuckets, DefaultRatios, MaxCalls, MaxEnv)

\* Two workers sharing the dataset and the cache directory.
InitMW ==
    \E var \in Variants :
        InitState({1, 2}, << MkPath(<<"root", "a">>, "x", ".mp4") >>, PromptList(1), {}, var,
                  DefaultRawBuckets, DefaultRatios, MaxCalls, MaxEnv)

\* The bucket variant over one video, any bucket list and ratio triple.
InitBuckets ==
    \E raw \in SeqsUpTo(RawBucketChoices, MaxBuckets), rat \in RatioChoices,
       v \in VideoPaths, n \in 0..MaxVideos :
        InitState({1}, <<v>>, PromptList(n), {}, "bucket", raw, rat, 2, 1)

\* ----------------------------------------------------------------- __init__
Construct ==
    /\ ctor.state = "new"
    /\ LET err == InitError(videos, prompts, DOMAIN fsVideo) IN
        /\ ctor' = [state |-> IF err = NoError THEN "ok" ELSE "failed", error |-> err]
        /\ buckets' = IF err = NoError /\ variant = "bucket"
                      THEN WorkingBuckets(rawBuckets, ratios)
                      ELSE buckets
    /\ UNCHANGED << variant, prompts, videos, rawBuckets, ratios, encodeFn, fsVideo,
                    dirs, cache, workers, pc, loc, result, callsLeft, envLeft,
                    ghostVars >>

\* ------------------------------------------------------------------ __len__
DatasetLen == Len(videos)

LenCall(w) ==
    /\ ctor.state = "ok"
    /\ pc[w] = "idle"
    /\ result' = [result EXCEPT ![w] = [NoResult EXCEPT !.status = "len",
                                                        !.len = DatasetLen]]
    /\ UNCHANGED << dsVars, encodeFn, fsVideo, dirs, cache, workers, pc, loc,
                    callsLeft, envLeft, ghostVars >>

\* -------------------------------------------------------------- __getitem__
GetItemArgs ==
    { IntArg(i) : i \in 0..MaxVideos } \cup { ListArg(l) : l \in ListArgs }

Key(w) == EncodedVideoPath(loc[w].video)

\* The call of worker w ends with outcome res.
Finish(w, res) ==
    /\ result' = [result EXCEPT ![w] = res]
    /\ pc' = [pc EXCEPT ![w] = "idle"]

\* An exception raised inside __getitem__ leaves it as it is: there is no
\* try / except in the method.
Raised_wrapped(w, err) ==
    [NoResult EXCEPT !.status = "error", !.arg = loc[w].arg,
                     !.first = loc[w].first, !.hit = loc[w].hit,
                     !.error = "RuntimeError", !.log = loc[w].log,
                     !.passed = loc[w].passed]

Raised(w, err) ==
    [NoResult EXCEPT !.status = "error", !.arg = loc[w].arg,
                     !.first = loc[w].first, !.hit = loc[w].hit,
                     !.error = err, !.log = loc[w].log, !.passed = loc[w].passed]

Returned(w, encoded, log, batch) ==
    [NoResult EXCEPT !.status = "ok", !.arg = loc[w].arg,
                     !.first = loc[w].first, !.hit = loc[w].hit,
                     !.item = MakeItem(loc[w].prompt, encoded),
                     !.log = log, !.batch = batch, !.passed = loc[w].passed]

\* Entry of __getitem__ up to the mkdir: the list pass-through, the lookups
\* self.prompts[index] and self.videos[index], latent_dir.mkdir.
GetItemBegin(w, a) ==
    /\ ctor.state = "ok"
    /\ pc[w] = "idle"
    /\ callsLeft > 0
    /\ callsLeft' = callsLeft - 1
    /\ IF IsListIndex(a)
       THEN /\ loc' = [loc EXCEPT ![w] = [NoLoc EXCEPT !.arg = a]]
            /\ Finish(w, [NoResult EXCEPT !.status = "list", !.arg = a, !.list = a.list])
            /\ UNCHANGED << dirs, begun >>
       ELSE IF a.isList \/ ~PyIndexValid(prompts, a.index) \/ ~PyIndexValid(videos, a.index)
       THEN /\ loc' = [loc EXCEPT ![w] = [NoLoc EXCEPT !.arg = a]]
            /\ Finish(w, [NoResult EXCEPT !.status = "error", !.arg = a,
                             !.error = IF a.isList THEN "TypeError" ELSE "IndexError"])
            /\ UNCHANGED << dirs, begun >>
       ELSE LET video == PyItem(videos, a.index) IN
            /\ loc' = [loc EXCEPT ![w] =
                          [NoLoc EXCEPT !.arg = a,
                                        !.prompt = PyItem(prompts, a.index),
                                        !.video = video,
                                        !.first = EncodedVideoPath(video) \notin begun,
                                        !.log = <<"lookup", "mkdir">>]]
            /\ dirs' = Mkdir(dirs, LatentDir(video))
            /\ begun' = begun \cup {EncodedVideoPath(video)}
            /\ pc' = [pc EXCEPT ![w] = "check"]
            /\ UNCHANGED result
    /\ UNCHANGED << dsVars, encodeFn, fsVideo, cache, workers, envLeft,
                    encInvoked, encReturned, encOutputs, returned >>

\* if encoded_video_path.exists():
CheckCache(w) ==
    /\ pc[w] = "check"
    /\ LET hit == PathExists(cache, Key(w)) IN
        /\ loc' = [loc EXCEPT ![w].hit = hit, ![w].log = Append(@, "exists")]
        /\ pc' = [pc EXCEPT ![w] = IF hit THEN "load" ELSE "preprocess"]
    /\ UNCHANGED << dsVars, encodeFn, fsVideo, dirs, cache, workers, result,
                    callsLeft, envLeft, ghostVars >>

\* encoded_video = torch.load(encoded_video_path, weights_only=True); return
LoadCache(w) ==
    /\ pc[w] = "load"
    /\ LET blob == cache[Key(w)]
           log == loc[w].log \o <<"load", "return">> IN
        IF BlobComplete(blob)
        THEN /\ Finish(w, Returned(w, Deserialize(blob), log, <<>>))
             /\ returned' = returned \cup {Key(w)}
        ELSE /\ Finish(w, [Raised(w, "LoadError") EXCEPT !.log = loc[w].log \o <<"load">>])
             /\ UNCHANGED returned
    /\ UNCHANGED << dsVars, encodeFn, fsVideo, dirs, cache, workers, loc,
                    callsLeft, envLeft, begun, encInvoked, encReturned, encOutputs >>

\* What self.preprocess hands to the decoder besides the path.
PreprocessArgs ==
    IF variant = "bucket"
    THEN buckets
    ELSE << ResizeArgs.max_num_frames, ResizeArgs.height, ResizeArgs.width >>

\* frames = self.preprocess(video); frames = frames.to(self.device)
Preprocess(w) ==
    /\ pc[w] = "preprocess"
    /\ IF ~Overrides(variant, "preprocess")
       THEN /\ Finish(w, [Raised(w, "NotImplementedError")
                             EXCEPT !.log = Append(loc[w].log, "preprocess")])
            /\ UNCHANGED loc
       ELSE \E decoded \in BOOLEAN :
            IF decoded
            THEN /\ loc' = [loc EXCEPT
                       ![w].passed = PreprocessArgs,
                       ![w].frames = [src |-> [path |-> loc[w].video,
                                               ver |-> fsVideo[loc[w].video]],
                                      px |-> DecodedPixels(fsVideo[loc[w].video]),
                                      layout |-> "FCHW",
                                      device |-> Device],
                       ![w].log = @ \o <<"preprocess", "to_device">>]
                 /\ pc' = [pc EXCEPT ![w] = "transform"]
                 /\ UNCHANGED result
            ELSE /\ Finish(w, [Raised(w, "DecodeError")
                                  EXCEPT !.log = Append(loc[w].log, "preprocess"),
                                         !.passed = PreprocessArgs])
                 /\ UNCHANGED loc
    /\ UNCHANGED << dsVars, encodeFn, fsVideo, dirs, cache, workers,
                    callsLeft, envLeft, ghostVars >>

\* frames = self.video_transform(frames); unsqueeze(0); permute(0, 2, 1, 3, 4)
Transform(w) ==
    /\ pc[w] = "transform"
    /\ IF ~Overrides(variant, "video_transform")
       THEN /\ Finish(w, [Raised(w, "NotImplementedError")
                             EXCEPT !.log = Append(loc[w].log, "video_transform")])
            /\ UNCHANGED loc
       ELSE \E stacked \in BOOLEAN :
            IF stacked
            THEN /\ loc' = [loc EXCEPT
                       ![w].frames = ToBatch(VideoTransformOf(variant, @)),
                       ![w].log = @ \o <<"video_transform", "reshape">>]
                 /\ pc' = [pc EXCEPT ![w] = "encode"]
                 /\ UNCHANGED result
            ELSE /\ Finish(w, [Raised(w, "TransformError")
                                  EXCEPT !.log = Append(loc[w].log, "video_transform")])
                 /\ UNCHANGED loc
    /\ UNCHANGED << dsVars, encodeFn, fsVideo, dirs, cache, workers,
                    callsLeft, envLeft, ghostVars >>

\* dataset.preprocess(path) or dataset.video_transform(frames), called on the
\* dataset object directly.
MethodCall(w, m) ==
    /\ ctor.state = "ok"
    /\ pc[w] = "idle"
    /\ callsLeft > 0
    /\ callsLeft' = callsLeft - 1
    /\ loc' = [loc EXCEPT ![w] = NoLoc]
    /\ \E fails \in BOOLEAN :
        result' = [result EXCEPT ![w] =
            IF ~Overrides(variant, m)
            THEN [NoResult EXCEPT !.status = "error", !.log = <<m>>,
                                  !.error = "NotImplementedError"]
            ELSE IF m = "preprocess"
            THEN IF fails
                 THEN [NoResult EXCEPT !.status = "error", !.log = <<m>>,
                                       !.error = "DecodeError",
                                       !.passed = PreprocessArgs]
                 ELSE [NoResult EXCEPT !.status = "method", !.log = <<m>>,
                                       !.passed = PreprocessArgs]
            ELSE [NoResult EXCEPT !.status = "method", !.log = <<m>>]]
    /\ UNCHANGED << dsVars, encodeFn, fsVideo, dirs, cache, workers, pc,
                    envLeft, ghostVars >>

\* encoded_video = self.encode_video_fn(frames); encoded_video = encoded_video[0].cpu()
Encode(w) ==
    /\ pc[w] = "encode"
    /\ encInvoked' = encInvoked \cup {Key(w)}
    /\ \E out \in LatentShapes \cup {<<>>} :
        IF out # <<>>
        THEN LET batch == << [src |-> loc[w].frames.src, fn |-> encodeFn, shape |-> out] >> IN
             /\ loc' = [loc EXCEPT ![w].batch = batch,
                                   ![w].encoded = FirstOfBatch(batch),
                                   ![w].log = Append(@, "encode")]
             /\ encOutputs' = encOutputs \cup {batch[1]}
             /\ encReturned' = encReturned \cup {Key(w)}
             /\ pc' = [pc EXCEPT ![w] = "save"]
             /\ UNCHANGED result
        ELSE /\ Finish(w, [Raised(w, "EncodeError")
                              EXCEPT !.log = Append(loc[w].log, "encode")])
             /\ UNCHANGED << loc, encOutputs, encReturned >>
    /\ UNCHANGED << dsVars, encodeFn, fsVideo, dirs, cache, workers,
                    callsLeft, envLeft, begun, returned >>

\* torch.save(encoded_video, encoded_video_path); logger.info(...); return
Save(w) ==
    /\ pc[w] = "save"
    /\ cache' = WriteFile(cache, Key(w), Serialize(loc[w].encoded))
    /\ Finish(w, Returned(w, loc[w].encoded, loc[w].log \o <<"save", "return">>,
                          loc[w].batch))
    /\ returned' = returned \cup {Key(w)}
    /\ UNCHANGED << dsVars, encodeFn, fsVideo, dirs, workers, loc,
                    callsLeft, envLeft, begun, encInvoked, encReturned, encOutputs >>

\* ------------------------------------------------------------- environment
\* dataset.encode_video_fn is bound to another callable.
ReplaceEncodeFn(f) ==
    /\ ctor.state = "ok"
    /\ envLeft > 0
    /\ f # encodeFn
    /\ encodeFn' = f
    /\ envLeft' = envLeft - 1
    /\ UNCHANGED << dsVars, fsVideo, dirs, cache, workers, pc, loc, result,
                    callsLeft, ghostVars >>

\* A listed video file is overwritten in place with other content.
OverwriteVideo(p) ==
    /\ ctor.state = "ok"
    /\ envLeft > 0
    /\ p \in Range(videos)
    /\ fsVideo' = [fsVideo EXCEPT ![p] = @ + 1]
    /\ envLeft' = envLeft - 1
    /\ UNCHANGED << dsVars, encodeFn, dirs, cache, workers, pc, loc, result,
                    callsLeft, ghostVars >>

Next ==
    \/ Construct
    \/ \E w \in workers : LenCall(w)
    \/ \E w \in workers, a \in GetItemArgs : GetItemBegin(w, a)
    \/ \E w \in workers : CheckCache(w)
    \/ \E w \in workers : LoadCache(w)
    \/ \E w \in workers : Preprocess(w)
    \/ \E w \in workers : Transform(w)
    \/ \E w \in workers, m \in {"preprocess", "video_transform"} : MethodCall(w, m)
    \/ \E w \in workers : Encode(w)
    \/ \E w \in workers : Save(w)
    \/ \E f \in EncodeFns : ReplaceEncodeFn(f)
    \/ \E p \in VideoPaths : OverwriteVideo(p)

Spec == Init /\ [][Next]_vars

SpecMW == InitMW /\ [][Next]_vars

SpecBuckets == InitBuckets /\ [][Next]_vars

\* ================================================================== claims
\* Worker w finishes an integer-index call in this step.
FinishesCall(w) == pc[w] # "idle" /\ pc'[w] = "idle"

\* The cache path the code derives for index i of the dataset.
EntryOf(i) ==
    [parent |-> PyItem(videos, i).parent \o <<"latent">>,
     stem |-> PyItem(videos, i).stem, suffix |-> ".pt"]

\* C1: when a retrieval of index i returns a record and the call before it, by
\* the same single worker, returned a record for the same index i, the second
\* latent is identical to the first, whatever encode function is bound by then
\* and whatever the video file holds by then.
C1_SecondCallSameLatent ==
    [][\A w \in workers :
          ( /\ FinishesCall(w)
            /\ result[w].status = "ok"
            /\ result'[w].status = "ok"
            /\ result'[w].arg = result[w].arg )
          => result'[w].item.encoded_video = result[w].item.encoded_video]_vars

\* C1 witness: the only sample was retrieved a second time and served from the
\* cache after the encode function had been replaced by another one.
C1_Witness ==
    \E w \in workers :
        /\ Len(videos) = 1
        /\ result[w].status = "ok"
        /\ result[w].hit
        /\ result[w].item.encoded_video.fn # encodeFn

\* C2, first half: when the entry exists at the check, the call goes to the
\* load, returns the latent that was stored, and runs none of preprocess,
\* video_transform and encode.
C2_HitSkipsPipeline(w) ==
    /\ ( pc[w] = "check" /\ pc'[w] # "check" /\ Key(w) \in DOMAIN cache )
       => pc'[w] = "load"
    /\ ( pc[w] = "load" /\ pc'[w] # "load" )
       => /\ result'[w].status = "ok"
          /\ Serialize(result'[w].item.encoded_video) = cache[Key(w)]
          /\ result'[w].log = <<"lookup", "mkdir", "exists", "load", "return">>
          /\ UNCHANGED << encInvoked, encReturned, encOutputs >>

\* C2 as stated: the first half, and the encode function is invoked at most
\* once per cache entry in a single-worker run.
C2_Original ==
    [][\A w \in workers :
          /\ C2_HitSkipsPipeline(w)
          /\ ( pc[w] = "encode" /\ pc'[w] # "encode" ) => Key(w) \notin encInvoked]_vars

\* C2 amended: the first half; the encode function is never invoked for an
\* entry that exists, and it returns a latent at most once per cache entry (an
\* invocation that raises stores nothing and the next retrieval invokes it
\* again).
C2_Amended ==
    [][\A w \in workers :
          /\ C2_HitSkipsPipeline(w)
          /\ ( pc[w] = "encode" /\ pc'[w] # "encode" ) => Key(w) \notin DOMAIN cache
          /\ ( pc[w] = "encode" /\ pc'[w] = "save" ) => Key(w) \notin encReturned]_vars

\* C2 witness: a retrieval was served from an entry that an earlier retrieval
\* had encoded and stored.
C2_Witness ==
    \E w \in workers :
        /\ result[w].status = "ok"
        /\ result[w].hit
        /\ EntryOf(result[w].arg.index) \in encReturned

MissingIn(vs) == { i \in 1..Len(vs) : vs[i] \notin DOMAIN fsVideo }

\* C3: a construction over a videos list with a missing file fails with a
\* ValueError that names the first missing path of the list, and the dataset
\* is never used.
C3_MissingFileRejected ==
    ( ctor.state # "new" /\ MissingIn(videos) # {} )
    => /\ ctor.state = "failed"
       /\ ctor.error.type = "ValueError"
       /\ ctor.error.cites = "missing_file"
       /\ \E i \in MissingIn(videos) :
             /\ \A j \in MissingIn(videos) : i <= j
             /\ ctor.error.path = videos[i]
       /\ \A w \in workers : result[w] = NoResult /\ pc[w] = "idle"

\* C3 witness: a construction failed over a list with two missing files.
C3_Witness ==
    /\ ctor.state = "failed"
    /\ Cardinality(MissingIn(videos)) >= 2

\* C4 as stated: a construction with lists of different lengths fails with a
\* ValueError that cites both lengths, whatever else holds of the inputs.
C4_Original ==
    ( ctor.state # "new" /\ Len(videos) # Len(prompts) )
    => /\ ctor.state = "failed"
       /\ ctor.error.type = "ValueError"
       /\ ctor.error.cites = "lengths"
       /\ ctor.error.nprompts = Len(prompts)
       /\ ctor.error.nvideos = Len(videos)

\* C4 amended: a construction with lists of different lengths fails with a
\* ValueError; it cites both lengths when every listed video file exists, and
\* names the first missing path (citing no length) when one is missing.
C4_Amended ==
    ( ctor.state # "new" /\ Len(videos) # Len(prompts) )
    => /\ ctor.state = "failed"
       /\ ctor.error.type = "ValueError"
       /\ IF MissingIn(videos) = {}
          THEN /\ ctor.error.cites = "lengths"
               /\ ctor.error.nprompts = Len(prompts)
               /\ ctor.error.nvideos = Len(videos)
          ELSE /\ ctor.error.cites = "missing_file"
               /\ ctor.error.nprompts = -1
               /\ ctor.error.nvideos = -1
               /\ \E i \in MissingIn(videos) :
                     /\ \A j \in MissingIn(videos) : i <= j
                     /\ ctor.error.path = videos[i]

\* C4 witness: a construction with different lengths and every file present
\* failed citing the lengths.
C4_Witness ==
    /\ ctor.state = "failed"
    /\ Len(videos) # Len(prompts)
    /\ MissingIn(videos) = {}
    /\ ctor.error.cites = "lengths"

\* C5: once construction has succeeded, and after any retrievals, the length
\* of the dataset, and every value __len__ returned, is the number of videos
\* and the number of prompts.
C5_LenIsBothCounts ==
    ctor.state = "ok"
    => /\ DatasetLen = Len(videos)
       /\ DatasetLen = Len(prompts)
       /\ \A w \in workers :
             result[w].status = "len"
             => result[w].len = Len(videos) /\ result[w].len = Len(prompts)

\* C5 witness: __len__ returned after all retrievals of the run, one of which
\* stored a latent, on a dataset of two samples.
C5_Witness ==
    \E w \in workers :
        /\ result[w].status = "len"
        /\ result[w].len = 2
        /\ callsLeft = 0
        /\ cache # << >>

\* C6: a call whose index is a list returns exactly that list and changes
\* nothing else: no lookup, no directory, no cache file, no video read, no call
\* of preprocess, video_transform or encode, whatever the cache holds.
C6_ListPassThrough ==
    [][\A w \in workers :
          ( /\ pc[w] = "idle"
            /\ callsLeft' # callsLeft
            /\ loc'[w].arg.isList
            /\ \A u \in workers \ {w} : loc'[u] = loc[u] /\ result'[u] = result[u] )
          => /\ result'[w].status = "list"
             /\ result'[w].list = loc'[w].arg.list
             /\ result'[w].log = <<>>
             /\ result'[w].item = NoItem
             /\ loc'[w] = [NoLoc EXCEPT !.arg = loc'[w].arg]
             /\ pc' = pc
             /\ UNCHANGED << dsVars, encodeFn, fsVideo, dirs, cache, ghostVars >>]_vars

\* C6 witness: a non-empty list was passed through while the cache held an
\* entry.
C6_Witness ==
    \E w \in workers :
        /\ result[w].status = "list"
        /\ result[w].list # <<>>
        /\ cache # << >>

\* q is the floor of a / r, for r > 0.
IsFloorOf(q, a, r) == q * r <= a /\ a < (q + 1) * r

\* C7: in the bucket variant the working buckets stored at construction are
\* the floors of the raw bucket dimensions over the three ratios, in the order
\* of the raw list, and the working list is what preprocess hands on.
C7_WorkingBucketsAreFloors ==
    ( ctor.state = "ok" /\ variant = "bucket" )
    => /\ Len(buckets) = Len(rawBuckets)
       /\ \A i \in 1..Len(rawBuckets), d \in 1..3 :
             IsFloorOf(buckets[i][d], rawBuckets[i][d], ratios[d])
       /\ \A w \in workers :
             /\ pc[w] \in {"transform", "encode", "save"} => loc[w].passed = buckets
             /\ ( \/ result[w].status = "ok" /\ ~result[w].hit
                  \/ result[w].error \in {"DecodeError", "EncodeError"} )
                => result[w].passed = buckets

\* C7 witness: preprocess has handed on a working list of two different
\* buckets, one dimension of which did not divide evenly.
C7_Witness ==
    \E w \in workers :
        /\ pc[w] = "transform"
        /\ Len(rawBuckets) = 2
        /\ loc[w].passed = buckets
        /\ buckets[1] # buckets[2]
        /\ \E i \in 1..2, d \in 1..3 : buckets[i][d] * ratios[d] # rawBuckets[i][d]

\* C8: with two workers, no lock, and whole-file writes, every latent a worker
\* returns is the complete output of some encode call, no worker reads a file
\* cut short, and every entry in the cache is the complete output of one encode
\* call, also when both workers encoded the same missing sample.
C8_RaceNotCorrupting ==
    /\ \A k \in DOMAIN cache :
          /\ BlobComplete(cache[k])
          /\ \E l \in encOutputs : cache[k] = Serialize(l)
    /\ \A w \in workers :
          /\ result[w].error # "LoadError"
          /\ pc[w] = "load" => Key(w) \in DOMAIN cache /\ BlobComplete(cache[Key(w)])
          /\ result[w].status = "ok"
             => /\ result[w].item.encoded_video \in encOutputs
                /\ result[w].item.encoded_video.shape \in LatentShapes
                /\ EntryOf(result[w].arg.index) \in DOMAIN cache

\* C8 witness: both workers missed on the same index, both encoded and stored,
\* their latents differ, and the entry holds one of the two.
C8_Witness ==
    /\ \A w \in workers :
          /\ result[w].status = "ok"
          /\ ~result[w].hit
          /\ result[w].arg.index = 0
    /\ \E w, u \in workers : result[w].item.encoded_video # result[u].item.encoded_video
    /\ \E w \in workers :
          cache[EntryOf(0)] = Serialize(result[w].item.encoded_video)

\* The step stores entry k, made by an integer-index retrieval of worker w of
\* a sample that maps to k.
CreatedBy(k, w) ==
    /\ pc[w] = "save" /\ pc'[w] = "idle"
    /\ ~loc[w].arg.isList
    /\ EntryOf(loc[w].arg.index) = k

EntryKept(k) ==
    k \in DOMAIN cache => k \in DOMAIN cache' /\ cache'[k] = cache[k]

\* C9 as stated: an entry comes into existence only in the first integer-index
\* retrieval of a sample that maps to it, and an entry that exists stays, with
\* its content.
C9_Original ==
    [][\A k \in CachePaths \cup DOMAIN cache' :
          /\ ( k \notin DOMAIN cache /\ k \in DOMAIN cache' )
             => \E w \in workers : CreatedBy(k, w) /\ loc[w].first
          /\ EntryKept(k)]_vars

\* C9 amended: an entry comes into existence only in an integer-index
\* retrieval of a sample that maps to it, the first such retrieval to complete
\* without an error (earlier ones may have failed and stored nothing), and an
\* entry that exists stays, with its content.
C9_Amended ==
    [][\A k \in CachePaths \cup DOMAIN cache' :
          /\ ( k \notin DOMAIN cache /\ k \in DOMAIN cache' )
             => \E w \in workers : CreatedBy(k, w) /\ k \notin returned
          /\ EntryKept(k)]_vars

\* C9 witness: an entry was stored by a retrieval that was not the first one
\* begun for it.
C9_Witness ==
    \E w \in workers :
        /\ result[w].status = "ok"
        /\ ~result[w].hit
        /\ ~result[w].first
        /\ EntryOf(result[w].arg.index) \in DOMAIN cache

\* C10: a record returned for index i holds prompts[i]; its latent is the
\* content of the entry derived from videos[i] on a hit and the first batch
\* element of the encoder's output on a miss; num_frames, height and width
\* are dimensions 1, 2 and 3 of that latent.
C10_RecordContents ==
    \A w \in workers :
        result[w].status = "ok"
        => LET i == result[w].arg.index
               latent == result[w].item.encoded_video IN
           /\ result[w].item.prompt = prompts[i + 1]
           /\ result[w].hit => Serialize(latent) = cache[EntryOf(i)]
           /\ ~result[w].hit => Len(result[w].batch) = 1 /\ latent = result[w].batch[1]
           /\ Len(latent.shape) = 4
           /\ result[w].item.video_metadata.num_frames = latent.shape[2]
           /\ result[w].item.video_metadata.height = latent.shape[3]
           /\ result[w].item.video_metadata.width = latent.shape[4]

\* C10 witness: the second sample of a dataset was returned from the cache.
C10_Witness ==
    \E w \in workers :
        /\ result[w].status = "ok"
        /\ result[w].hit
        /\ result[w].arg.index = 1

\* The log of an integer-index retrieval that stopped in preprocess.
LogToPreprocess == <<"lookup", "mkdir", "exists", "preprocess">>

\* C11: on the base type preprocess and video_transform always raise
\* NotImplementedError, called directly or from a retrieval; a retrieval by a
\* valid integer index therefore ends with that error in preprocess, before the
\* encode function is invoked and without a cache entry written; the resize and
\* the bucket variant override both methods and never raise it.
C11_BaseNotImplemented ==
    /\ variant = "base" =>
          /\ DOMAIN cache = {}
          /\ encInvoked = {}
          /\ encReturned = {}
          /\ \A w \in workers :
                /\ pc[w] \in {"idle", "check", "preprocess"}
                /\ result[w].status \notin {"ok", "method"}
                /\ result[w].log # <<>> =>
                      /\ result[w].status = "error"
                      /\ result[w].error = "NotImplementedError"
                      /\ result[w].item = NoItem
                      /\ result[w].log \in { LogToPreprocess, <<"preprocess">>,
                                            <<"video_transform">> }
    /\ variant # "base" =>
          \A w \in workers : result[w].error # "NotImplementedError"

\* C11 witness: a retrieval on the base type ended with NotImplementedError in
\* preprocess, its latent directory made and the cache still empty.
C11_Witness ==
    \E w \in workers :
        /\ variant = "base"
        /\ result[w].error = "NotImplementedError"
        /\ result[w].log = LogToPreprocess
        /\ ~result[w].arg.isList
        /\ LatentDir(PyItem(videos, result[w].arg.index)) \in dirs
        /\ DOMAIN cache = {}

\* Pixel x / 255.0 * 2.0 - 1.0, as a number of 255ths.
Normalized(x) == 2 * x - 255

\* C12: video_transform of the resize variant and of the bucket variant are
\* the same function: the frames come out in the same number and order, each
\* pixel x replaced by x / 255 * 2 - 1, so 0 becomes -1 and 255 becomes 1.
\* The two pixel maps do not depend on the state and are compared over all 256
\* pixel values for every dataset about to be constructed; the frame tensors
\* are compared wherever a retrieval is about to transform or has transformed.
C12_SameVideoTransform ==
    /\ FrameTransform(0) = -255
    /\ BucketsFrameTransform(0) = -255
    /\ FrameTransform(255) = 255
    /\ BucketsFrameTransform(255) = 255
    /\ ctor.state = "new" =>
          \A x \in 0..255 :
              /\ FrameTransform(x) = BucketsFrameTransform(x)
              /\ FrameTransform(x) = Normalized(x)
    /\ \A w \in workers :
          /\ pc[w] = "transform" =>
                /\ VideoTransform(loc[w].frames) = BucketsVideoTransform(loc[w].frames)
                /\ VideoTransformOf(variant, loc[w].frames).src = loc[w].frames.src
                /\ VideoTransformOf(variant, loc[w].frames).layout = loc[w].frames.layout
          /\ pc[w] = "encode" =>
                /\ Len(loc[w].frames.px) = Len(DecodedPixels(loc[w].frames.src.ver))
                /\ \A i \in 1..Len(loc[w].frames.px) :
                      loc[w].frames.px[i] =
                          Normalized(DecodedPixels(loc[w].frames.src.ver)[i])

\* C12 witness: the bucket variant has transformed the frames of a rewritten
\* video, whose pixels 255, 128 and 0 became 1, 1/255 and -1 in that order.
C12_Witness ==
    \E w \in workers :
        /\ variant = "bucket"
        /\ pc[w] = "encode"
        /\ loc[w].frames.px = <<255, 1, -255>>

\* The steps of an integer-index retrieval that misses, in the order of the code.
MissSteps ==
    << "lookup", "mkdir", "exists", "preprocess", "to_device", "video_transform",
       "reshape", "encode", "save", "return" >>

IsPrefix(s, t) == Len(s) <= Len(t) /\ SubSeq(t, 1, Len(s)) = s

\* The steps worker w has logged are the steps that lead to its position.
C13_StepsInOrder(w) ==
    /\ pc[w] = "preprocess" => loc[w].log = SubSeq(MissSteps, 1, 3)
    /\ pc[w] = "transform" => loc[w].log = SubSeq(MissSteps, 1, 5)
    /\ pc[w] = "encode" => loc[w].log = SubSeq(MissSteps, 1, 7)
    /\ pc[w] = "save" => loc[w].log = SubSeq(MissSteps, 1, 8)
    /\ ( result[w].log # <<>> /\ result[w].log[1] = "lookup" /\ ~result[w].hit ) =>
          /\ IsPrefix(result[w].log, MissSteps)
          /\ result[w].status = "ok" => result[w].log = MissSteps

\* C13: an integer-index retrieval that finds no cache entry runs cache check,
\* preprocess, move to device, video_transform, reshape, encode, cache write and
\* return once each and in this order (a retrieval in which a step raises stops
\* at that step); a record is returned on a miss only by the step that has
\* written the cache entry, and the entry written holds the latent returned.
C13_MissPipelineOrder ==
    [][\A w \in workers :
          /\ C13_StepsInOrder(w)
          /\ C13_StepsInOrder(w)'
          /\ ( pc[w] = "save" /\ pc'[w] # "save" ) =>
                /\ result'[w].status = "ok"
                /\ Key(w) \in DOMAIN cache'
                /\ cache'[Key(w)] = Serialize(result'[w].item.encoded_video)
                /\ result'[w].item.encoded_video = loc[w].encoded
                /\ result'[w].item.encoded_video \in encOutputs
          /\ ( FinishesCall(w) /\ result'[w].status = "ok" /\ ~result'[w].hit
               /\ ~loc[w].arg.isList ) =>
                /\ pc[w] = "save"
                /\ result'[w].log = MissSteps]_vars

\* C13 witness: a retrieval that missed has returned its record after all the
\* steps, and the cache entry holds the latent of the record.
C13_Witness ==
    \E w \in workers :
        /\ result[w].status = "ok"
        /\ ~result[w].hit
        /\ result[w].log = MissSteps
        /\ EntryOf(result[w].arg.index) \in DOMAIN cache
        /\ cache[EntryOf(result[w].arg.index)] = Serialize(result[w].item.encoded_video)

\* The exception the step at position p raises when it fails.
StepError(p) ==
    IF p = "encode" THEN "EncodeError"
    ELSE IF ~Overrides(variant, "preprocess") THEN "NotImplementedError"
    ELSE IF p = "preprocess" THEN "DecodeError"
    ELSE "TransformError"

\* C14: when preprocess, video_transform or the encode function raises in an
\* integer-index retrieval that missed, the caller gets that exception and no
\* record, the call has written nothing, the cache holds what it held when the
\* call began and has no entry for that video, and the next retrieval of the
\* same index misses again and enters the pipeline from preprocess.
C14_FailedMissWritesNothing ==
    [][\A w \in workers :
          /\ pc[w] # "save" => cache' = cache
          /\ ( FinishesCall(w) /\ pc[w] \in {"preprocess", "transform", "encode"} ) =>
                /\ result'[w].status = "error"
                /\ result'[w].error = StepError(pc[w])
                /\ result'[w].arg = loc[w].arg
                /\ result'[w].item = NoItem
                /\ Key(w) \notin DOMAIN cache'
                /\ dirs' = dirs
          /\ ( /\ result[w].error \in { StepError(p) : p \in {"preprocess", "transform", "encode"} }
               /\ Len(result[w].log) > 1
               /\ pc[w] = "check"
               /\ loc[w].arg = result[w].arg
               /\ pc'[w] # "check" ) =>
                /\ pc'[w] = "preprocess"
                /\ ~loc'[w].hit]_vars

\* C14 witness: the encode function raised in a retrieval, and the next
\* retrieval of the same index has run the pipeline again up to the cache write.
C14_Witness ==
    \E w \in workers :
        /\ result[w].error = "EncodeError"
        /\ pc[w] = "save"
        /\ loc[w].arg = result[w].arg
        /\ Key(w) \notin DOMAIN cache

\* C15 as stated: in a dataset of pairwise distinct video paths, starting from
\* an empty cache, the latent every integer-index retrieval returns for index i
\* is an encoding of videos[i], never of another video of the dataset.
C15_LatentOfOwnVideo ==
    \A w \in workers :
        ( result[w].status = "ok" /\ ~result[w].arg.isList ) =>
           result[w].item.encoded_video.src.path = PyItem(videos, result[w].arg.index)

\* The latent of the record worker w got from its last integer-index retrieval.
LatentOf(w) == result[w].item.encoded_video

GotLatent(w) == result[w].status = "ok" /\ ~result[w].arg.isList

\* C16 as stated: workers sharing the cache directory that retrieve the same
\* index all get the same latent, and it is the content of the cache entry that
\* is finally stored, also when the encode function is not deterministic.
C16_Original ==
    \A w, u \in workers :
        ( GotLatent(w) /\ GotLatent(u) /\ result[w].arg = result[u].arg ) =>
           /\ LatentOf(w) = LatentOf(u)
           /\ ( \A v \in workers : pc[v] = "idle" ) =>
                 LatentOf(w) = Deserialize(cache[EntryOf(result[w].arg.index)])

\* As long as all encode calls made so far gave one and the same output, every
\* latent returned is that output and so is every entry stored.
C16_AgreeWhileEncodeAgrees ==
    ( \A a, b \in encOutputs : a = b ) =>
        /\ \A w, u \in workers :
              ( GotLatent(w) /\ GotLatent(u) ) => LatentOf(w) = LatentOf(u)
        /\ \A w \in workers, k \in DOMAIN cache :
              GotLatent(w) => cache[k] = Serialize(LatentOf(w))

\* C16 amended: a retrieval that finds the entry returns the content the entry
\* has at that moment; a retrieval that misses returns the output of its own
\* encode call and stores it, replacing what another worker may have stored
\* meanwhile; an entry changes only by such a write.  The latents returned for
\* one index are the same, and equal to the entry, as long as the encode calls
\* agree; with an encode function that is not deterministic two workers that
\* both missed may return different latents, one of them not the stored one.
C16_Amended ==
    [][/\ C16_AgreeWhileEncodeAgrees
       /\ C16_AgreeWhileEncodeAgrees'
       /\ \A w \in workers :
             /\ ( pc[w] = "load" /\ FinishesCall(w) ) =>
                   /\ result'[w].status = "ok"
                   /\ result'[w].hit
                   /\ result'[w].item.encoded_video = Deserialize(cache[Key(w)])
                   /\ cache' = cache
             /\ ( pc[w] = "save" /\ FinishesCall(w) ) =>
                   /\ result'[w].status = "ok"
                   /\ ~result'[w].hit
                   /\ result'[w].item.encoded_video = loc[w].encoded
                   /\ cache'[Key(w)] = Serialize(loc[w].encoded)
       /\ \A k \in DOMAIN cache' :
             ( k \notin DOMAIN cache \/ cache'[k] # cache[k] ) =>
                \E w \in workers : pc[w] = "save" /\ FinishesCall(w) /\ Key(w) = k]_vars

\* C16 witness: all calls are over, both workers got a latent for index 0, and
\* the latent one of them got is not the one the cache entry holds.
C16_Witness ==
    /\ \A w \in workers : pc[w] = "idle" /\ GotLatent(w) /\ result[w].arg.index = 0
    /\ callsLeft = 0
    /\ \E w \in workers : LatentOf(w) # Deserialize(cache[EntryOf(0)])

\* The outcome r is that of an integer-index retrieval with a valid index.
OfValidIndex(r) == Len(r.log) > 1 /\ r.log[1] = "lookup"

\* C17: every integer-index retrieval with a valid index makes the latent
\* directory of its video before it checks for the cache entry, whether or not
\* the directory exists already, so the directory exists during the call and
\* after it, be it a hit, a miss that stored, or a miss that failed in
\* preprocess, video_transform or encode; directories are never removed.
C17_LatentDirEnsured ==
    [][/\ dirs \subseteq dirs'
       /\ \A w \in workers :
             /\ ( /\ pc[w] = "idle"
                  /\ callsLeft' # callsLeft
                  /\ ~loc'[w].arg.isList
                  /\ PyIndexValid(videos, loc'[w].arg.index)
                  /\ PyIndexValid(prompts, loc'[w].arg.index) ) =>
                   /\ pc'[w] = "check"
                   /\ loc'[w].log = <<"lookup", "mkdir">>
                   /\ dirs' = dirs \cup {LatentDir(PyItem(videos, loc'[w].arg.index))}
             /\ ( pc[w] = "check" /\ pc'[w] # "check" ) =>
                   /\ LatentDir(loc[w].video) \in dirs
                   /\ loc'[w].log = <<"lookup", "mkdir", "exists">>
             /\ pc'[w] # "idle" => LatentDir(loc'[w].video) \in dirs'
             /\ OfValidIndex(result'[w]) =>
                   /\ LatentDir(PyItem(videos, result'[w].arg.index)) \in dirs'
                   /\ SubSeq(result'[w].log, 1, 3) = <<"lookup", "mkdir", "exists">>]_vars

\* C17 witness: a second retrieval of a sample, whose latent directory existed
\* when the call began, failed in preprocess, and the directory is there.
C17_Witness ==
    \E w \in workers :
        /\ result[w].error = "DecodeError"
        /\ OfValidIndex(result[w])
        /\ ~result[w].first
        /\ LatentDir(PyItem(videos, result[w].arg.index)) \in dirs

====
